---- MODULE Spec2Model ----
(***************************************************************************)
(* analyze-stacksplit: a model of main (the loop over the file arguments), *)
(* examineFile (ELF precheck, objdump start, the line scan, wait, final    *)
(* function, statistics, detail report), astate.recordFunc and             *)
(* astate.analyze.                                                         *)
(*                                                                         *)
(* Strings that are only compared for equality (call targets, pc labels)   *)
(* are TLA+ strings.  Function names are sequences of byte codes, because  *)
(* recordFunc concatenates them with "%" and a decimal number and the      *)
(* detail report sorts them with sort.Strings (bytewise order).            *)
(***************************************************************************)
EXTENDS Integers, Sequences, FiniteSets, TLC

(* ---------------------------- bounds ----------------------------------- *)
\* lines read from objdump pipes in one run (all files together)
MaxLines == 4
\* file arguments on the command line
MaxFiles == 2
\* call lines of the function body compared for order independence
MaxBody == 3

(* ------------------------- FnType (analyzer.go) ------------------------ *)
Unknown == 0
Leaf == 1
NoSplit == 2
SplitSmall == 3
SplitLarge == 4

(* --------------------------- byte strings ------------------------------ *)
\* "" (curfunc before the first function-start line)
EmptyStr == << >>
\* "%"
Percent == <<37>>
\* "dup"
NameDup == <<100, 117, 112>>
\* "dup%1": a real symbol whose text equals a synthetic collision key
NameDupPct1 == <<100, 117, 112, 37, 49>>
\* "b"
NameB == <<98>>
\* the function names objdump may print in the model
Names == {NameDup, NameDupPct1, NameB}

\* fmt's %d of a non-negative integer
RECURSIVE FormatInt(_)
FormatInt(n) ==
    IF n < 10 THEN <<48 + n>>
    ELSE FormatInt(n \div 10) \o <<48 + (n % 10)>>

\* fmt.Sprintf("%s%s%d", fname, "%", n)
Sprintf(fname, n) == fname \o Percent \o FormatInt(n)

\* Go's string comparison a < b: bytewise, a proper prefix is smaller
RECURSIVE StrLess(_, _)
StrLess(a, b) ==
    IF Len(b) = 0 THEN FALSE
    ELSE IF Len(a) = 0 THEN TRUE
    ELSE IF Head(a) # Head(b) THEN Head(a) < Head(b)
    ELSE StrLess(Tail(a), Tail(b))

(* ------------------------------ lines ---------------------------------- *)
ShortHelper == "__morestack"
LongHelper == "__morestack_non_split"
OtherTarget == "runtime.other"
Targets == {ShortHelper, LongHelper, OtherTarget}

FnStartLine(n) == [kind |-> "fnstart", name |-> n, tgt |-> ""]
PltJumpLine == [kind |-> "pltjump", name |-> EmptyStr, tgt |-> ""]
DirCallLine(t) == [kind |-> "dircall", name |-> EmptyStr, tgt |-> t]
AnyCallLine == [kind |-> "anycall", name |-> EmptyStr, tgt |-> ""]
OtherLine == [kind |-> "other", name |-> EmptyStr, tgt |-> ""]
NoLine == [kind |-> "none", name |-> EmptyStr, tgt |-> ""]

CallLines == {PltJumpLine, AnyCallLine} \cup {DirCallLine(t) : t \in Targets}
Lines == {FnStartLine(n) : n \in Names} \cup CallLines \cup {OtherLine}

\* the four regular expressions of examineFile, on the line kinds
fnstart(ln) == ln.kind = "fnstart"
pltjumpre(ln) == ln.kind = "pltjump"
dircallre(ln) == ln.kind = "dircall"
anycallre(ln) == ln.kind \in {"dircall", "anycall"}

(* ------------------------------ astate --------------------------------- *)
\* var state astate; state.funcs = make(map[string]FnType)
NewState ==
    [seenShort |-> FALSE, seenLong |-> FALSE, seenCall |-> FALSE,
     funcs |-> << >>, collisions |-> 0]

\* variant of Disp: the short helper is tested before the long helper
DispShortFirst(s) ==
    IF s.seenShort THEN SplitSmall
    ELSE IF s.seenLong THEN SplitLarge
    ELSE IF s.seenCall THEN NoSplit
    ELSE Leaf

\* variant of Disp: disp starts as the zero value instead of Leaf
DispUnknown(s) ==
    IF s.seenLong THEN SplitLarge
    ELSE IF s.seenShort THEN SplitSmall
    ELSE IF s.seenCall THEN NoSplit
    ELSE Unknown

\* disp of recordFunc, lines 40-47
Disp(s) ==
    IF s.seenLong THEN SplitLarge
    ELSE IF s.seenShort THEN SplitSmall
    ELSE IF s.seenCall THEN NoSplit
    ELSE Leaf

\* s.funcs[fname] = disp
MapStore(m, k, v) ==
    [x \in (DOMAIN m) \cup {k} |-> IF x = k THEN v ELSE m[x]]

\* odisp, ok := s.funcs[fname]: the zero value when the key is absent
MapLoad(m, k) == IF k \in DOMAIN m THEN m[k] ELSE Unknown

\* variant of recordFunc: the comparison is reversed (keeps the smaller)
recordFuncMin(s, fname) ==
    LET disp0 == Disp(s)
        odisp == MapLoad(s.funcs, fname)
        ok == fname \in DOMAIN s.funcs
        coll == IF ok THEN s.collisions + 1 ELSE s.collisions
        key == IF ok THEN Sprintf(fname, coll) ELSE fname
        disp == IF ok /\ odisp < disp0 THEN odisp ELSE disp0
    IN  [seenShort |-> FALSE, seenLong |-> FALSE, seenCall |-> FALSE,
         funcs |-> MapStore(s.funcs, key, disp), collisions |-> coll]

\* variant of recordFunc: the key is formatted before the increment
recordFuncStaleCounter(s, fname) ==
    LET disp0 == Disp(s)
        odisp == MapLoad(s.funcs, fname)
        ok == fname \in DOMAIN s.funcs
        coll == IF ok THEN s.collisions + 1 ELSE s.collisions
        key == IF ok THEN Sprintf(fname, s.collisions) ELSE fname
        disp == IF ok /\ odisp > disp0 THEN odisp ELSE disp0
    IN  [seenShort |-> FALSE, seenLong |-> FALSE, seenCall |-> FALSE,
         funcs |-> MapStore(s.funcs, key, disp), collisions |-> coll]

recordFunc(s, fname) ==
    LET disp0 == Disp(s)
        odisp == MapLoad(s.funcs, fname)
        ok == fname \in DOMAIN s.funcs
        coll == IF ok THEN s.collisions + 1 ELSE s.collisions
        key == IF ok THEN Sprintf(fname, coll) ELSE fname
        disp == IF ok /\ odisp > disp0 THEN odisp ELSE disp0
    IN  [seenShort |-> FALSE, seenLong |-> FALSE, seenCall |-> FALSE,
         funcs |-> MapStore(s.funcs, key, disp), collisions |-> coll]

\* variant of scanLine: a direct call assigns the helper flags
scanLineAssign(s, cf, ln) ==
    LET s1 == IF fnstart(ln) /\ cf # EmptyStr THEN recordFunc(s, cf) ELSE s
        cf1 == IF fnstart(ln) THEN ln.name ELSE cf
        s2 == IF pltjumpre(ln) THEN [s1 EXCEPT !.seenCall = TRUE] ELSE s1
        s3 == IF dircallre(ln)
              THEN [s2 EXCEPT !.seenCall = TRUE,
                              !.seenShort = ln.tgt = ShortHelper,
                              !.seenLong = ln.tgt = LongHelper]
              ELSE IF anycallre(ln) THEN [s2 EXCEPT !.seenCall = TRUE]
              ELSE s2
    IN  [state |-> s3, curfunc |-> cf1]

\* one iteration of the scan loop, lines 116-150, on state and curfunc
scanLine(s, cf, ln) ==
    LET s1 == IF fnstart(ln) /\ cf # EmptyStr THEN recordFunc(s, cf) ELSE s
        cf1 == IF fnstart(ln) THEN ln.name ELSE cf
        s2 == IF pltjumpre(ln) THEN [s1 EXCEPT !.seenCall = TRUE] ELSE s1
        s3 == IF dircallre(ln)
              THEN [s2 EXCEPT !.seenCall = TRUE,
                              !.seenShort = @ \/ ln.tgt = ShortHelper,
                              !.seenLong = @ \/ (ln.tgt # ShortHelper
                                                 /\ ln.tgt = LongHelper)]
              ELSE IF anycallre(ln) THEN [s2 EXCEPT !.seenCall = TRUE]
              ELSE s2
    IN  [state |-> s3, curfunc |-> cf1]

\* the loop of analyze over s.funcs, lines 65-78; corrupt models log.Fatalf
RECURSIVE Tally(_, _, _)
Tally(m, keys, acc) ==
    IF keys = {} THEN acc
    ELSE LET fn == CHOOSE k \in keys : TRUE
             disp == m[fn]
             acc1 == CASE disp = Unknown -> [acc EXCEPT !.corrupt = TRUE]
                       [] disp = Leaf -> [acc EXCEPT !.lv = @ + 1]
                       [] disp = NoSplit -> [acc EXCEPT !.ns = @ + 1]
                       [] disp = SplitSmall -> [acc EXCEPT !.short = @ + 1]
                       [] disp = SplitLarge -> [acc EXCEPT !.long = @ + 1]
                       [] OTHER -> acc
         IN  IF acc1.corrupt THEN acc1 ELSE Tally(m, keys \ {fn}, acc1)

\* variant of analyze: the SplitLarge case is missing from the switch
analyzeSkipLarge(s) ==
    [Tally(s.funcs, {k \in DOMAIN s.funcs : s.funcs[k] # SplitLarge},
           [lv |-> 0, ns |-> 0, short |-> 0, long |-> 0, corrupt |-> FALSE])
     EXCEPT !.long = 0]

analyze(s) ==
    Tally(s.funcs, DOMAIN s.funcs,
          [lv |-> 0, ns |-> 0, short |-> 0, long |-> 0, corrupt |-> FALSE])

\* variant of SortStrings: descending order
RECURSIVE SortStringsDesc(_)
SortStringsDesc(S) ==
    IF S = {} THEN << >>
    ELSE LET most == CHOOSE x \in S : \A y \in S \ {x} : StrLess(y, x)
         IN  <<most>> \o SortStringsDesc(S \ {most})

\* sort.Strings on the names collected from the map (distinct keys)
RECURSIVE SortStrings(_)
SortStrings(S) ==
    IF S = {} THEN << >>
    ELSE LET least == CHOOSE x \in S : \A y \in S \ {x} : StrLess(x, y)
         IN  <<least>> \o SortStrings(S \ {least})

\* typs and cats of the detail loop, lines 176-177
typs == <<Leaf, NoSplit, SplitSmall, SplitLarge>>
cats == <<"Leaf", "NoSplit", "MoreStack", "MoreStackNonSplit">>

\* the detail loop, lines 178-190: one block per category
DetailReport(m) ==
    [idx \in 1 .. Len(typs) |->
        [cat |-> cats[idx],
         fns |-> SortStrings({fn \in DOMAIN m : m[fn] = typs[idx]})]]

(* ------------------------------ state ---------------------------------- *)
VARIABLES
    nargs,      \* flag.NArg()
    detail,     \* *detailflag
    pc,         \* position in main / examineFile
    arg,        \* index of the file argument being examined
    elf,        \* per file: result of elf.Open
    proc,       \* per file: the objdump process
    rd,         \* per file: the scanner over the objdump pipe
    state,      \* examineFile's astate
    curfunc,    \* examineFile's curfunc
    line,       \* examineFile's line (the last line read)
    nlines,     \* lines read so far in this run
    out,        \* per file: the "stats for" block printed, or NoStats
    report,     \* the detail blocks printed for the file last reported
    warned,     \* files for which warn() wrote to stderr
    diag,       \* the fatal / usage diagnostic, "" when none
    exitCode,   \* process exit status, -1 while running
    body,       \* call lines read since the last function-start line
    calls,      \* call lines read since the flags were last reset
    starts,     \* per name: function-start lines read from this file's stream
    solo,       \* the scan of this file's stream by a run given only this file
    ord         \* the second scan compared for order independence

vars == <<nargs, detail, pc, arg, elf, proc, rd, state, curfunc, line, nlines,
          out, report, warned, diag, exitCode, body, calls, starts, solo, ord>>

NoStats == << >>
NoStarts == [n \in Names |-> 0]
NoSolo == [state |-> NewState, curfunc |-> EmptyStr]
NoOrd == [bodyA |-> << >>, bodyB |-> << >>, restA |-> << >>, restB |-> << >>,
          state |-> NewState, curfunc |-> EmptyStr]
Files == 1 .. nargs

Init ==
    /\ nargs \in 0 .. MaxFiles
    /\ detail \in BOOLEAN
    /\ pc = "main"
    /\ arg = 0
    /\ elf = [i \in 1 .. nargs |-> "none"]
    /\ proc = [i \in 1 .. nargs |-> "none"]
    /\ rd = [i \in 1 .. nargs |-> "none"]
    /\ state = NewState
    /\ curfunc = EmptyStr
    /\ line = NoLine
    /\ nlines = 0
    /\ out = [i \in 1 .. nargs |-> NoStats]
    /\ report = << >>
    /\ warned = {}
    /\ diag = ""
    /\ exitCode = -1
    /\ body = {}
    /\ calls = {}
    /\ starts = NoStarts
    /\ solo = NoSolo
    /\ ord = NoOrd

(* ------------------------- control transfers --------------------------- *)
\* variant of Fatal: the error is reported and examineFile returns
FatalReturns(msg) ==
    /\ diag' = msg
    /\ IF arg < nargs
       THEN pc' = "examine" /\ arg' = arg + 1 /\ exitCode' = exitCode
       ELSE pc' = "exit" /\ arg' = arg /\ exitCode' = 0

\* log.Fatal / log.Fatalf: print the diagnostic and os.Exit(1)
Fatal(msg) ==
    /\ pc' = "exit"
    /\ exitCode' = 1
    /\ diag' = msg
    /\ arg' = arg

\* examineFile returns; the range loop of main goes on, or main returns
Return ==
    /\ diag' = diag
    /\ IF arg < nargs
       THEN pc' = "examine" /\ arg' = arg + 1 /\ exitCode' = exitCode
       ELSE pc' = "exit" /\ arg' = arg /\ exitCode' = 0

(* ------------------------------ actions -------------------------------- *)
\* variant of Main: the argument count is not tested
MainNoUsage ==
    /\ pc = "main"
    /\ diag' = diag
    /\ IF nargs = 0
       THEN pc' = "exit" /\ exitCode' = 0 /\ arg' = arg
       ELSE pc' = "examine" /\ arg' = 1 /\ exitCode' = exitCode
    /\ UNCHANGED <<nargs, detail, elf, proc, rd, state, curfunc, line, nlines,
                   out, report, warned, body, starts, solo, calls, ord>>

\* main up to the first iteration of its loop; usage() exits with 2
Main ==
    /\ pc = "main"
    /\ IF nargs = 0
       THEN pc' = "exit" /\ exitCode' = 2 /\ diag' = "usage" /\ arg' = arg
       ELSE pc' = "examine" /\ arg' = 1 /\ exitCode' = exitCode /\ diag' = diag
    /\ UNCHANGED <<nargs, detail, elf, proc, rd, state, curfunc, line, nlines,
                   out, report, warned, body, starts, solo, calls, ord>>

\* variant of ElfOpen: a failed precheck is fatal
ElfOpenFatal ==
    /\ pc = "examine"
    /\ \E ok \in BOOLEAN :
         IF ok
         THEN /\ elf' = [elf EXCEPT ![arg] = "ok"]
              /\ pc' = "start"
              /\ UNCHANGED <<arg, warned, diag, exitCode>>
         ELSE /\ elf' = [elf EXCEPT ![arg] = "bad"]
              /\ warned' = warned \cup {arg}
              /\ Fatal("elf")
    /\ UNCHANGED <<nargs, detail, proc, rd, state, curfunc, line, nlines,
                   out, report, body, starts, solo, calls, ord>>

\* examineFile lines 88-93: the ELF precheck
ElfOpen ==
    /\ pc = "examine"
    /\ \E ok \in BOOLEAN :
         IF ok
         THEN /\ elf' = [elf EXCEPT ![arg] = "ok"]
              /\ pc' = "start"
              /\ UNCHANGED <<arg, warned, diag, exitCode>>
         ELSE /\ elf' = [elf EXCEPT ![arg] = "bad"]
              /\ warned' = warned \cup {arg}
              /\ Return
    /\ UNCHANGED <<nargs, detail, proc, rd, state, curfunc, line, nlines,
                   out, report, body, starts, solo, calls, ord>>

\* variant of StartCmd: state and curfunc outlive examineFile
StartCmdKeepsState ==
    /\ pc = "start"
    /\ \E r \in {"ok", "pipe", "start"} :
         IF r = "ok"
         THEN /\ proc' = [proc EXCEPT ![arg] = "running"]
              /\ line' = NoLine
              /\ body' = {}
              /\ calls' = {}
              /\ starts' = NoStarts
              /\ solo' = NoSolo
              /\ pc' = "scan"
              /\ UNCHANGED <<state, curfunc, arg, diag, exitCode>>
         ELSE /\ proc' = [proc EXCEPT ![arg] = "failed"]
              /\ Fatal(r)
              /\ UNCHANGED <<state, curfunc, line, body, starts, solo, calls>>
    /\ UNCHANGED <<nargs, detail, elf, rd, nlines, out, report, warned, ord>>

\* examineFile lines 95-112: start objdump, fresh astate and curfunc
StartCmd ==
    /\ pc = "start"
    /\ \E r \in {"ok", "pipe", "start"} :
         IF r = "ok"
         THEN /\ proc' = [proc EXCEPT ![arg] = "running"]
              /\ state' = NewState
              /\ curfunc' = EmptyStr
              /\ line' = NoLine
              /\ body' = {}
              /\ calls' = {}
              /\ starts' = NoStarts
              /\ solo' = NoSolo
              /\ pc' = "scan"
              /\ UNCHANGED <<arg, diag, exitCode>>
         ELSE /\ proc' = [proc EXCEPT ![arg] = "failed"]
              /\ Fatal(r)
              /\ UNCHANGED <<state, curfunc, line, body, starts, solo, calls>>
    /\ UNCHANGED <<nargs, detail, elf, rd, nlines, out, report, warned, ord>>

\* examineFile lines 115-151: scanner.Scan() delivers a line
ScanLine ==
    /\ pc = "scan"
    /\ nlines < MaxLines
    /\ \E ln \in Lines :
         LET r == scanLine(state, curfunc, ln)
         IN  /\ line' = ln
             /\ state' = r.state
             /\ curfunc' = r.curfunc
             /\ body' = IF fnstart(ln) THEN {}
                        ELSE IF ln \in CallLines THEN body \cup {ln}
                        ELSE body
             /\ calls' = IF fnstart(ln) /\ curfunc # EmptyStr THEN {}
                         ELSE IF ln \in CallLines THEN calls \cup {ln}
                         ELSE calls
             /\ starts' = IF fnstart(ln)
                          THEN [starts EXCEPT ![ln.name] = @ + 1]
                          ELSE starts
             /\ solo' = scanLine(solo.state, solo.curfunc, ln)
    /\ nlines' = nlines + 1
    /\ UNCHANGED <<nargs, detail, pc, arg, elf, proc, rd, out, report, warned,
                   diag, exitCode, ord>>

\* examineFile lines 115, 152-154: scanner.Scan() returns false
ScanEnd ==
    /\ pc = "scan"
    /\ \E err \in BOOLEAN :
         IF err
         THEN /\ rd' = [rd EXCEPT ![arg] = "error"]
              /\ Fatal("scan")
         ELSE /\ rd' = [rd EXCEPT ![arg] = "eof"]
              /\ pc' = "wait"
              /\ UNCHANGED <<arg, diag, exitCode>>
    /\ UNCHANGED <<nargs, detail, elf, proc, state, curfunc, line, nlines,
                   out, report, warned, body, starts, solo, calls, ord>>

\* examineFile lines 155-157: cmd.Wait()
CmdWait ==
    /\ pc = "wait"
    /\ \E ok \in BOOLEAN :
         IF ok
         THEN /\ proc' = [proc EXCEPT ![arg] = "exit0"]
              /\ pc' = "final"
              /\ UNCHANGED <<arg, diag, exitCode>>
         ELSE /\ proc' = [proc EXCEPT ![arg] = "exitN"]
              /\ Fatal("wait")
    /\ UNCHANGED <<nargs, detail, elf, rd, state, curfunc, line, nlines,
                   out, report, warned, body, starts, solo, calls, ord>>

\* variant of FinalFunc: the function open at end of input is not recorded
FinalFuncSkips ==
    /\ pc = "final"
    /\ pc' = "stats"
    /\ UNCHANGED <<nargs, detail, arg, elf, proc, rd, state, curfunc, line,
                   nlines, out, report, warned, diag, exitCode, body, calls,
                   starts, solo, ord>>

\* examineFile lines 159-162: the final function
FinalFunc ==
    /\ pc = "final"
    /\ state' = IF curfunc # EmptyStr THEN recordFunc(state, curfunc) ELSE state
    /\ calls' = IF curfunc # EmptyStr THEN {} ELSE calls
    /\ solo' = IF solo.curfunc # EmptyStr
               THEN [solo EXCEPT !.state = recordFunc(solo.state, solo.curfunc)]
               ELSE solo
    /\ pc' = "stats"
    /\ UNCHANGED <<nargs, detail, arg, elf, proc, rd, curfunc, line, nlines,
                   out, report, warned, diag, exitCode, body, starts, ord>>

\* examineFile lines 165-172: analyze and print the stats block
EmitStats ==
    /\ pc = "stats"
    /\ LET r == analyze(state)
       IN  IF r.corrupt
           THEN /\ Fatal("corrupted funcs table entry")
                /\ out' = out
           ELSE /\ out' = [out EXCEPT ![arg] = <<r.lv, r.ns, r.short, r.long>>]
                /\ pc' = "detail"
                /\ UNCHANGED <<arg, diag, exitCode>>
    /\ UNCHANGED <<nargs, detail, elf, proc, rd, state, curfunc, line, nlines,
                   report, warned, body, starts, solo, calls, ord>>

\* examineFile lines 174-193: the detail blocks, then return true
Detail ==
    /\ pc = "detail"
    /\ report' = IF detail THEN DetailReport(state.funcs) ELSE report
    /\ Return
    /\ UNCHANGED <<nargs, detail, elf, proc, rd, state, curfunc, line, nlines,
                   out, warned, body, starts, solo, calls, ord>>

Next ==
    \/ Main
    \/ ElfOpen
    \/ StartCmd
    \/ ScanLine
    \/ ScanEnd
    \/ CmdWait
    \/ FinalFunc
    \/ EmitStats
    \/ Detail

Spec == Init /\ [][Next]_vars

(* ---------------- two scans of one function body, reordered ------------ *)
\* the lines of a function body: call lines and lines that match nothing
BodyLines == CallLines \cup {OtherLine}
Bodies == UNION {[1 .. n -> BodyLines] : n \in 0 .. MaxBody}
Bijections(n) ==
    {f \in [1 .. n -> 1 .. n] : \A i, j \in 1 .. n : f[i] = f[j] => i = j}
Reorderings(b) ==
    {[i \in 1 .. Len(b) |-> b[f[i]]] : f \in Bijections(Len(b))}

\* states of the scan right after a function-start line for NameDup: the
\* table is empty (first function), or holds an earlier function
OrderStarts ==
    {NewState}
    \cup {[NewState EXCEPT !.funcs = MapStore(<< >>, n, c)] :
            n \in {NameDup}, c \in Leaf .. SplitLarge}

InitOrder ==
    /\ nargs = 1
    /\ detail = FALSE
    /\ pc = "scan"
    /\ arg = 1
    /\ elf = [i \in 1 .. 1 |-> "ok"]
    /\ proc = [i \in 1 .. 1 |-> "running"]
    /\ rd = [i \in 1 .. 1 |-> "none"]
    /\ state \in OrderStarts
    /\ curfunc = NameDup
    /\ line = FnStartLine(NameDup)
    /\ nlines = 0
    /\ out = [i \in 1 .. 1 |-> NoStats]
    /\ report = << >>
    /\ warned = {}
    /\ diag = ""
    /\ exitCode = -1
    /\ body = {}
    /\ calls = {}
    /\ starts = [NoStarts EXCEPT ![NameDup] = 1]
    /\ solo = [state |-> state, curfunc |-> curfunc]
    /\ \E b \in Bodies : \E p \in Reorderings(b) :
         ord = [bodyA |-> b, bodyB |-> p, restA |-> b, restB |-> p,
                state |-> state, curfunc |-> curfunc]

\* both scans read their next line (the bodies have the same length)
OrderStep ==
    /\ pc = "scan"
    /\ ord.restA # << >>
    /\ LET r == scanLine(state, curfunc, Head(ord.restA))
           q == scanLine(ord.state, ord.curfunc, Head(ord.restB))
       IN  /\ state' = r.state
           /\ curfunc' = r.curfunc
           /\ line' = Head(ord.restA)
           /\ ord' = [ord EXCEPT !.restA = Tail(@), !.restB = Tail(@),
                                 !.state = q.state, !.curfunc = q.curfunc]
    /\ UNCHANGED <<nargs, detail, pc, arg, elf, proc, rd, nlines, out, report,
                   warned, diag, exitCode, body, starts, solo, calls>>

\* both bodies are read: the function is finalized in both scans
OrderFinish ==
    /\ pc = "scan"
    /\ ord.restA = << >>
    /\ state' = recordFunc(state, curfunc)
    /\ ord' = [ord EXCEPT !.state = recordFunc(ord.state, ord.curfunc)]
    /\ pc' = "stats"
    /\ UNCHANGED <<nargs, detail, arg, elf, proc, rd, curfunc, line, nlines,
                   out, report, warned, diag, exitCode, body, starts, solo, calls>>

NextOrder ==
    \/ OrderStep
    \/ OrderFinish

SpecOrder == InitOrder /\ [][NextOrder]_vars

(* ======================= properties of the scan ======================== *)
\* the category the specification assigns to a set of call lines
CatOf(S) ==
    IF DirCallLine(LongHelper) \in S THEN SplitLarge
    ELSE IF DirCallLine(ShortHelper) \in S THEN SplitSmall
    ELSE IF S # {} THEN NoSplit
    ELSE Leaf

MaxCat(a, b) == IF a > b THEN a ELSE b

\* name + "%" + c, written out for one-digit c
SynthKey(n, c) == n \o <<37, 48 + c>>

\* this step finalizes the open function curfunc
Finalizes ==
    \/ pc = "scan" /\ pc' = "scan" /\ fnstart(line') /\ curfunc # EmptyStr
    \/ pc = "final" /\ pc' = "stats" /\ curfunc # EmptyStr

Collides == curfunc \in DOMAIN state.funcs

\* the key under which this step's finalization stores the function
WrittenKey ==
    IF Collides THEN SynthKey(curfunc, state.collisions + 1) ELSE curfunc

C2_CollisionKeepsMax ==
    [][Finalizes /\ Collides =>
         LET c1 == state.funcs[curfunc]
             c2 == CatOf(calls)
             key == SynthKey(curfunc, state'.collisions)
         IN  /\ key \in DOMAIN state'.funcs
             /\ state'.funcs[key] = MaxCat(c1, c2)
             /\ curfunc \in DOMAIN state'.funcs
             /\ state'.funcs[curfunc] = c1]_vars

\* third occurrence of "dup": c1 = NoSplit, c2 = Leaf, "dup%2" gets NoSplit
C2_Witness ==
    /\ pc = "stats"
    /\ state.collisions = 2
    /\ body = {}
    /\ DOMAIN state.funcs = {NameDup, NameDupPct1, SynthKey(NameDup, 2)}
    /\ state.funcs[NameDup] = NoSplit
    /\ state.funcs[SynthKey(NameDup, 2)] = NoSplit

\* C3: in one file's scan the collision counter starts at 0, grows by
\* exactly 1 on a finalization whose name is already a key, which writes the
\* key name%counter (the value after the increment), and is unchanged by
\* every other step.
C3_CollisionCounter ==
    [][/\ (pc = "start" /\ pc' = "scan" => state'.collisions = 0)
       /\ (pc \in {"scan", "wait", "final", "stats", "detail"} =>
             IF Finalizes /\ Collides
             THEN /\ state'.collisions = state.collisions + 1
                  /\ DOMAIN state'.funcs = DOMAIN state.funcs
                       \cup {SynthKey(curfunc, state'.collisions)}
             ELSE state'.collisions = state.collisions)]_vars

\* "dup", "dup", "b", "b": keys dup, dup%1, b, b%2; one counter for all names
C3_Witness ==
    /\ pc = "stats"
    /\ state.collisions = 2
    /\ DOMAIN state.funcs = {NameDup, NameDupPct1, NameB, <<98, 37, 50>>}

\* C4: every table entry is one of Leaf, NoSplit, SplitSmall, SplitLarge,
\* and the fatal "corrupted funcs table entry" exit never happens.
C4_NoUnknownEntry ==
    /\ \A k \in DOMAIN state.funcs :
         state.funcs[k] \in {Leaf, NoSplit, SplitSmall, SplitLarge}
    /\ diag # "corrupted funcs table entry"

\* analyze has walked a table with a collision entry
C4_Witness ==
    /\ pc = "detail"
    /\ state.collisions >= 1
    /\ Cardinality(DOMAIN state.funcs) >= 3

CountOf(m, c) == Cardinality({k \in DOMAIN m : m[k] = c})

\* C5: the four counts of analyze tally every key exactly once: each count
\* is the number of keys of its category and their sum the number of keys.
C5_CountsSumToKeys ==
    pc = "detail" =>
      LET c == out[arg]
      IN  /\ c # NoStats
          /\ c[1] + c[2] + c[3] + c[4] = Cardinality(DOMAIN state.funcs)
          /\ c[1] = CountOf(state.funcs, Leaf)
          /\ c[2] = CountOf(state.funcs, NoSplit)
          /\ c[3] = CountOf(state.funcs, SplitSmall)
          /\ c[4] = CountOf(state.funcs, SplitLarge)

\* three keys, one of them synthetic, counted as 2 Leaf and 1 SplitLarge
C5_Witness ==
    /\ pc = "detail"
    /\ state.collisions = 1
    /\ NameDupPct1 \in DOMAIN state.funcs
    /\ out[arg] = <<2, 0, 0, 1>>

(* ======================== properties of the run ======================== *)
\* C6: an objdump process that was started is waited for on every exit
\* path: the program never exits while a started process is not reaped.
C6_ProcessAlwaysAwaited ==
    pc = "exit" => \A i \in Files : proc[i] # "running"

ToolFailed(i) == proc[i] \in {"failed", "exitN"} \/ rd[i] = "error"

\* C7: a failed start, a read error or a non-zero exit of objdump prints no
\* stats for the file, ends the run with status 1 and leaves every later
\* file untouched; stats are printed only after end of stream without
\* error and exit status zero.
C7_ToolErrorsAreFatal ==
    \A i \in Files :
      /\ ToolFailed(i) =>
           /\ out[i] = NoStats
           /\ pc = "exit"
           /\ exitCode = 1
           /\ arg = i
           /\ \A j \in Files :
                j > i => elf[j] = "none" /\ proc[j] = "none" /\ out[j] = NoStats
      /\ out[i] # NoStats => rd[i] = "eof" /\ proc[i] = "exit0"

\* objdump exits non-zero for the first of two files
C7_Witness ==
    /\ nargs = 2
    /\ proc[1] = "exitN"
    /\ pc = "exit"
    /\ exitCode = 1
    /\ out[1] = NoStats
    /\ elf[2] = "none"

PrecheckOutcome ==
    /\ \A i \in Files :
         elf[i] = "bad" => proc[i] = "none" /\ out[i] = NoStats /\ i \in warned
    /\ (pc = "exit" /\ diag = "" =>
          exitCode = 0 /\ \A i \in Files : elf[i] # "none")

\* C8: a file that fails the ELF precheck gets a warning, no objdump and no
\* stats; the next file of the argument list is examined next, in order;
\* a run without fatal error ends with exit code 0, every file attempted.
C8_PrecheckFailureSkipsFile ==
    [][/\ PrecheckOutcome'
       /\ (arg' = arg \/ arg' = arg + 1)
       /\ (pc = "examine" /\ elf'[arg] = "bad" =>
             /\ arg \in warned'
             /\ diag' = diag
             /\ IF arg < nargs
                THEN pc' = "examine" /\ arg' = arg + 1 /\ exitCode' = -1
                ELSE pc' = "exit" /\ exitCode' = 0)]_vars

\* the first file fails the precheck, the second is examined and reported
C8_Witness ==
    /\ nargs = 2
    /\ elf[1] = "bad"
    /\ 1 \in warned
    /\ out[2] # NoStats
    /\ pc = "exit"
    /\ exitCode = 0

\* C9: two scans of the same function whose bodies are reorderings of one
\* another leave the same table (the same category for the function).
C9_OrderIndependent ==
    pc = "stats" =>
      /\ state.funcs = ord.state.funcs
      /\ state.collisions = ord.state.collisions

\* a __morestack call before and after a generic call: SplitSmall both ways
C9_Witness ==
    /\ pc = "stats"
    /\ ord.bodyA = <<DirCallLine(ShortHelper), AnyCallLine>>
    /\ ord.bodyB = <<AnyCallLine, DirCallLine(ShortHelper)>>
    /\ state.funcs = (NameDup :> SplitSmall)
    /\ ord.state.funcs = (NameDup :> SplitSmall)

\* a < b in lexicographic byte order
LexLess(a, b) ==
    \E k \in 1 .. Len(b) :
      /\ k - 1 <= Len(a)
      /\ \A j \in 1 .. (k - 1) : a[j] = b[j]
      /\ (k = Len(a) + 1 \/ (k <= Len(a) /\ a[k] < b[k]))

ReportOK(r, m) ==
    /\ DOMAIN r = 1 .. 4
    /\ <<r[1].cat, r[2].cat, r[3].cat, r[4].cat>> =
         <<"Leaf", "NoSplit", "MoreStack", "MoreStackNonSplit">>
    /\ \A idx \in 1 .. 4 :
         /\ \A j \in 1 .. Len(r[idx].fns) :
              /\ r[idx].fns[j] \in DOMAIN m
              /\ m[r[idx].fns[j]] = idx
         /\ \A i, j \in 1 .. Len(r[idx].fns) :
              i < j => LexLess(r[idx].fns[i], r[idx].fns[j])
    /\ \A k \in DOMAIN m :
         Cardinality({p \in (1 .. 4) \X (1 .. Cardinality(DOMAIN m)) :
                        /\ p[2] <= Len(r[p[1]].fns)
                        /\ r[p[1]].fns[p[2]] = k}) = 1

\* C10: the detail report lists every key exactly once, in the block of its
\* category, blocks in the order Leaf, NoSplit, MoreStack,
\* MoreStackNonSplit, names ascending in each block; the counts and the
\* report leave the table as it was.
C10_DetailReport ==
    [][/\ (pc \in {"stats", "detail"} => state' = state)
       /\ (pc = "detail" /\ detail => ReportOK(report', state.funcs))]_vars

\* a report with "b" before "dup" in the Leaf block and "dup%1" in another
C10_Witness ==
    /\ pc = "exit"
    /\ detail
    /\ DOMAIN report = 1 .. 4
    /\ report[1].fns = <<NameB, NameDup>>
    /\ report[3].fns = <<NameDupPct1>>

\* C11: with no file argument the program prints the usage synopsis and
\* exits with code 2, and nothing is examined: the first step leads there,
\* no line is read, no warning written, no file position taken.
C11_UsageError ==
    nargs = 0 =>
      /\ pc \in {"main", "exit"}
      /\ (pc = "exit" => exitCode = 2 /\ diag = "usage")
      /\ (pc = "main" => exitCode = -1 /\ diag = "")
      /\ arg = 0
      /\ nlines = 0
      /\ warned = {}
      /\ report = << >>
      /\ state = NewState

\* the run without arguments has ended
C11_Witness ==
    /\ nargs = 0
    /\ pc = "exit"
    /\ exitCode = 2
    /\ diag = "usage"

\* C12: right after a function-start line with name N has been handled, the
\* current function is N and seenShort, seenLong and seenCall are all false,
\* whether or not a function was open before the line.
C12_FlagsResetAtFunctionStart ==
    [][pc = "scan" /\ pc' = "scan" /\ fnstart(line') =>
         /\ curfunc' = line'.name
         /\ ~state'.seenShort
         /\ ~state'.seenLong
         /\ ~state'.seenCall]_vars

\* C13: a PLT-jump line sets seenCall and changes nothing else of the scan
\* (seenShort, seenLong, table, counter, current function); a function whose
\* body has only PLT-jump lines is categorized NoSplit (and stored as such,
\* or as the maximum with the stored category when its name is a key).
C13_PltJumpOnlySetsSeenCall ==
    [][/\ (pc = "scan" /\ pc' = "scan" /\ pltjumpre(line') =>
             /\ state' = [state EXCEPT !.seenCall = TRUE]
             /\ curfunc' = curfunc)
       /\ (Finalizes /\ body = {PltJumpLine} =>
             /\ WrittenKey \in DOMAIN state'.funcs
             /\ state'.funcs[WrittenKey] =
                  IF Collides THEN MaxCat(state.funcs[curfunc], NoSplit)
                  ELSE NoSplit)]_vars

\* the table when analyze is called and while its result is printed
TableHandedOver == pc \in {"stats", "detail"}

\* C14: after end of stream and a successful wait, the function still open
\* is finalized exactly once before analyze is called; then every name that
\* occurred in a function-start line of the stream is a key of the table;
\* without any function-start line the table is empty and the counts are 0.
C14_FinalFunctionRecorded ==
    [][/\ (pc \in {"final", "stats", "detail"} =>
             proc[arg] = "exit0" /\ rd[arg] = "eof")
       /\ (pc = "final" =>
             IF curfunc # EmptyStr
             THEN /\ WrittenKey \in DOMAIN state'.funcs
                  /\ state'.funcs =
                       MapStore(state.funcs, WrittenKey,
                                state'.funcs[WrittenKey])
                  /\ state'.collisions \in
                       {state.collisions, state.collisions + 1}
             ELSE state'.funcs = state.funcs)
       /\ (TableHandedOver =>
             /\ \A n \in Names : starts[n] > 0 => n \in DOMAIN state.funcs
             /\ (starts = NoStarts => DOMAIN state.funcs = {}))
       /\ (pc = "detail" /\ starts = NoStarts => out[arg] = <<0, 0, 0, 0>>)
      ]_vars

\* "dup", "dup", "dup%1": the last function, open at end of stream, has a
\* name that is already a key (the synthetic key of the second "dup")
C14_Witness ==
    /\ pc = "detail"
    /\ starts = [NoStarts EXCEPT ![NameDup] = 2, ![NameDupPct1] = 1]
    /\ curfunc = NameDupPct1
    /\ {NameDup, NameDupPct1} \subseteq DOMAIN state.funcs

RECURSIVE SumOver(_, _)
SumOver(f, S) ==
    IF S = {} THEN 0
    ELSE LET x == CHOOSE y \in S : TRUE IN f[x] + SumOver(f, S \ {x})

\* function-start lines read from the stream of the file being scanned
StartCount == SumOver(starts, Names)

\* C15: every finalization adds exactly one new key and overwrites no entry;
\* when the table is handed to analyze its number of keys is the number of
\* function-start lines of the stream.
C15_OneNewKeyPerFunction ==
    [][/\ (Finalizes =>
             /\ Cardinality(DOMAIN state'.funcs) =
                  Cardinality(DOMAIN state.funcs) + 1
             /\ \A k \in DOMAIN state.funcs :
                  k \in DOMAIN state'.funcs
                  /\ state'.funcs[k] = state.funcs[k])
       /\ (TableHandedOver =>
             Cardinality(DOMAIN state.funcs) = StartCount)]_vars

InFile == {"scan", "wait", "final", "stats", "detail"}

\* C16: a file's scan starts with an empty table, counter 0, all flags
\* false and no open function; its table, current function and counts are
\* those of a run given this file alone, whatever was examined before; the
\* next file is taken up only when this one was skipped or fully reported.
C16_FilesAreIndependent ==
    [][/\ (pc = "start" /\ pc' = "scan" =>
             /\ DOMAIN state'.funcs = {}
             /\ state'.collisions = 0
             /\ ~state'.seenShort /\ ~state'.seenLong /\ ~state'.seenCall
             /\ curfunc' = EmptyStr)
       /\ (pc' \in InFile =>
             state' = solo'.state /\ curfunc' = solo'.curfunc)
       /\ (pc = "stats" /\ pc' = "detail" =>
             out'[arg] = <<CountOf(solo.state.funcs, Leaf),
                           CountOf(solo.state.funcs, NoSplit),
                           CountOf(solo.state.funcs, SplitSmall),
                           CountOf(solo.state.funcs, SplitLarge)>>)
       /\ (arg' # arg /\ arg >= 1 =>
             /\ arg' = arg + 1
             /\ pc' = "examine"
             /\ \/ pc = "examine" /\ elf'[arg] = "bad"
                \/ pc = "detail" /\ out[arg] # NoStats)]_vars

\* "dup" calling __morestack in the first file, a call-free "dup" in the
\* second: the second file's "dup" is a Leaf under its own name
C16_Witness ==
    /\ arg = 2
    /\ pc = "detail"
    /\ out[1] = <<0, 0, 1, 0>>
    /\ out[2] = <<1, 0, 0, 0>>
    /\ state.collisions = 0
    /\ DOMAIN state.funcs = {NameDup}
    /\ state.funcs[NameDup] = Leaf

TypeOK ==
    /\ pc \in {"main", "examine", "start", "scan", "wait", "final", "stats",
               "detail", "exit"}
    /\ arg \in 0 .. nargs
    /\ nlines \in 0 .. MaxLines
    /\ exitCode \in {-1, 0, 1, 2}

====
